---- MODULE Spec2Model ----
(***************************************************************************)
(* Model of modules/apsBidAdapter.js: the telemetry recorder, the account  *)
(* validation, the ORTB converter hooks and the bidder spec's operations.  *)
(*                                                                         *)
(* JavaScript values are records [t, n, s]: t is the kind of value, n its  *)
(* number (or object identity), s its characters (a sequence of one-       *)
(* character strings; an Error carries its message as a single chunk).     *)
(***************************************************************************)
EXTENDS Integers, Sequences, FiniteSets, TLC

VARIABLES
  cfg,      \* config: [telemetry, accountID] as read by config.readConfig('aps.*')
  aps,      \* window._aps: [defined, map]; map: key -> [queue, store]
  ads,      \* account literals baked into the inline scripts emitted so far
  nops,     \* number of operations performed (bounded by MaxOps)
  call,     \* the last operation: [op, arg]
  ret,      \* what the last operation returned: [kind, val]
  hook      \* the last converter hook run: [phase, ...input and result]

vars == <<cfg, aps, ads, nops, call, ret, hook>>

\* ---------------------------------------------------------------- bounds
MaxOps == 2
MaxImps == 2
MaxBids == 1

\* ----------------------------------------------------------- JS values
Undef == [t |-> "undefined", n |-> 0, s |-> <<>>]
Null == [t |-> "null", n |-> 0, s |-> <<>>]
Num(k) == [t |-> "number", n |-> k, s |-> <<>>]
Str(cs) == [t |-> "string", n |-> 0, s |-> cs]
Bool(b) == [t |-> "boolean", n |-> IF b THEN 1 ELSE 0, s |-> <<>>]
Obj(id) == [t |-> "object", n |-> id, s |-> <<>>]
Sym(id) == [t |-> "symbol", n |-> id, s |-> <<>>]
ErrorVal(kind, msg, idx) == [t |-> "Error", n |-> idx, s |-> <<kind, msg>>]

\* !v
Falsy(v) ==
  \/ v.t \in {"undefined", "null", "NaN"}
  \/ v.t = "number" /\ v.n = 0
  \/ v.t = "string" /\ v.s = <<>>
  \/ v.t = "boolean" /\ v.n = 0

\* v == null
IsNullish(v) == v.t \in {"undefined", "null"}

\* utils.isNumber / utils.isStr: Object.prototype.toString tag tests
isNumber(v) == v.t \in {"number", "NaN"}
isStr(v) == v.t = "string"

\* typeof v === 'number'
TypeofNumber(v) == v.t \in {"number", "NaN"}

\* v >= 0 (ToNumber(null) is 0, ToNumber(undefined) is NaN)
GE0(v) ==
  CASE v.t = "number" -> v.n >= 0
    [] v.t = "null" -> TRUE
    [] v.t = "boolean" -> TRUE
    [] v.t = "string" -> \A i \in 1..Len(v.s) : v.s[i] \in {" ", "0", "1", "2", "3", "5"}
    [] OTHER -> FALSE

IsWhite(c) == c \in {" ", "\t"}

RECURSIVE TrimStart(_)
TrimStart(cs) ==
  IF cs = <<>> THEN <<>>
  ELSE IF IsWhite(Head(cs)) THEN TrimStart(Tail(cs)) ELSE cs

RECURSIVE TrimEnd(_)
TrimEnd(cs) ==
  IF cs = <<>> THEN <<>>
  ELSE IF IsWhite(cs[Len(cs)]) THEN TrimEnd(SubSeq(cs, 1, Len(cs) - 1)) ELSE cs

\* String.prototype.trim
Trim(cs) == TrimEnd(TrimStart(cs))

Digit(d) == CASE d = 0 -> "0" [] d = 1 -> "1" [] d = 2 -> "2" [] d = 3 -> "3"
              [] d = 4 -> "4" [] d = 5 -> "5" [] d = 6 -> "6" [] d = 7 -> "7"
              [] d = 8 -> "8" [] d = 9 -> "9"

RECURSIVE Digits(_)
Digits(k) == IF k < 10 THEN <<Digit(k)>> ELSE Digits(k \div 10) \o <<Digit(k % 10)>>

\* `${v}` in a template literal: ToString(v). A Symbol cannot be converted
\* (TypeError); everything else yields its characters.
TemplateThrows(v) == v.t = "symbol"

TemplateString(v) ==
  CASE v.t = "string" -> v.s
    [] v.t = "number" -> IF v.n < 0 THEN <<"-">> \o Digits(0 - v.n) ELSE Digits(v.n)
    [] v.t = "NaN" -> <<"N", "a", "N">>
    [] v.t = "undefined" -> <<"undefined">>
    [] v.t = "null" -> <<"null">>
    [] v.t = "boolean" -> IF v.n = 1 THEN <<"true">> ELSE <<"false">>
    [] OTHER -> <<"[object Object]">>

\* ------------------------------------------------------------ constants
ADAPTER_VERSION == "2.0.0"
SOURCE_TAG == "prebid-adapter"
VIDEO == "video"
BANNER == "banner"
NATIVE == "native"

\* --------------------------------------------------------- Map helpers
EmptyMap == [k \in {} |-> 0]
MapHas(m, k) == k \in DOMAIN m
MapSet(m, k, v) == [x \in DOMAIN m \cup {k} |-> IF x = k THEN v ELSE m[x]]

NoWindowAps == [defined |-> FALSE, map |-> EmptyMap]

\* ------------------------------------------------------------- record
\* The data argument: undefined (no keys) or { error: v }.
NoData == [keys |-> {}, error |-> Undef]
ErrorData(v) == [keys |-> {"error"}, error |-> v]

\* eventName.startsWith('prebidAdapter/'), on the name's '/'-separated parts
PrefixedEventName(parts) ==
  IF Len(parts) >= 2 /\ parts[1] = "prebidAdapter" THEN parts
  ELSE <<"prebidAdapter">> \o parts

FinalEventName(parts) ==
  LET p == PrefixedEventName(parts)
  IN IF Len(p) < 3 THEN p \o <<"didTrigger">> ELSE p

\* { ...data } plus the analytics default
DetailData(data) ==
  IF Falsy(data.error)
    THEN [keys |-> data.keys \cup {"analytics"}, error |-> data.error]
    ELSE [keys |-> data.keys, error |-> data.error]

TelemetryEvent(parts, data) ==
  LET d == DetailData(data)
  IN [name |-> FinalEventName(parts),
      keys |-> d.keys \cup {"source", "libraryVersion"},
      error |-> d.error,
      source |-> SOURCE_TAG,
      libraryVersion |-> ADAPTER_VERSION]

TelemetryOff(c) == c.telemetry = "false"

NewRecordEntry == [queue |-> <<>>, store |-> {}]

Push(a, key, ev) ==
  [defined |-> TRUE,
   map |-> MapSet(a.map, key, [a.map[key] EXCEPT !.queue = Append(@, ev)])]

EnsureEntry(a, key, fresh) ==
  [defined |-> TRUE,
   map |-> IF MapHas(a.map, key) THEN a.map ELSE MapSet(a.map, key, fresh)]

\* record without the telemetry switch
record_IgnoresTelemetryFlag(a, c, parts, data) ==
  IF Falsy(c.accountID) THEN a
  ELSE Push(EnsureEntry(a, c.accountID, NewRecordEntry), c.accountID,
            TelemetryEvent(parts, data))

\* record(eventName, data): the window._aps that results
record(a, c, parts, data) ==
  IF TelemetryOff(c) THEN a
  ELSE IF Falsy(c.accountID) THEN a
  ELSE Push(EnsureEntry(a, c.accountID, NewRecordEntry), c.accountID,
            TelemetryEvent(parts, data))

\* ------------------------------------------------- account validation
isValidAccountID(v) ==
  IF IsNullish(v) THEN FALSE
  ELSE IF isNumber(v) THEN TRUE
  ELSE IF isStr(v) THEN Len(Trim(v.s)) > 0
  ELSE FALSE

\* ------------------------------------------------- converter.request
\* An ORTB request as the generic buildRequest returns it:
\*   device: [present, keys, geo: [present, keys]]   user: [present, keys]
\*   ext: [present, account]   cur: [present, list]
\*   imp: [kind ("array" | "missing" | "object"), items]
\* An impression: [nul, banner: [present, w, h, format: [isArray, items]]]
GeoPrecise == {"lat", "lon"}
UserSensitive == {"gender", "yob", "keywords", "kwarry", "customdata", "geo", "data"}

StripGeo(device) ==
  IF device.present /\ device.geo.present
    THEN [device EXCEPT !.geo.keys = @ \ GeoPrecise]
    ELSE device

\* StripUser with the alternate keywords field forgotten
StripUser_KeepsKwarry(user) ==
  IF user.present THEN [user EXCEPT !.keys = @ \ (UserSensitive \ {"kwarry"})] ELSE user

StripUser(user) ==
  IF user.present THEN [user EXCEPT !.keys = @ \ UserSensitive] ELSE user

\* doesHWExist with || for &&
doesHWExist_Either(banner) == GE0(banner.w) \/ GE0(banner.h)

doesHWExist(banner) == GE0(banner.w) /\ GE0(banner.h)
doesFormatExist(banner) == banner.format.isArray /\ Len(banner.format.items) > 0

\* One pass of the forEach callback over imp at (0-based) index:
\* [threw, err, imp]
ImpStep(imp, index) ==
  IF imp.nul
    THEN [threw |-> TRUE,
          err |-> ErrorVal("Error", "Impression is null or undefined", index),
          imp |-> imp]
  ELSE IF ~imp.banner.present
    THEN [threw |-> FALSE, err |-> Undef, imp |-> imp]
  ELSE IF ~doesHWExist(imp.banner) /\ doesFormatExist(imp.banner)
    THEN LET f == imp.banner.format.items[1]
         IN IF ~TypeofNumber(f.w) \/ ~TypeofNumber(f.h)
              THEN [threw |-> TRUE,
                    err |-> ErrorVal("Error", "Invalid banner format dimensions", index),
                    imp |-> imp]
              ELSE [threw |-> FALSE, err |-> Undef,
                    imp |-> [imp EXCEPT !.banner.w = f.w, !.banner.h = f.h]]
  ELSE [threw |-> FALSE, err |-> Undef, imp |-> imp]

\* request.imp.forEach(...): impressions are mutated in place, in order, until
\* one throws: [threw, err, items]
RECURSIVE ImpsFrom(_, _)
ImpsFrom(items, i) ==
  IF i > Len(items) THEN [threw |-> FALSE, err |-> Undef, items |-> items]
  ELSE LET r == ImpStep(items[i], i - 1)
       IN IF r.threw THEN [threw |-> TRUE, err |-> r.err, items |-> items]
          ELSE ImpsFrom([items EXCEPT ![i] = r.imp], i + 1)

\* The request pre-hook applied to the base request: [threw, err, request],
\* request being the (mutated) object, returned only when threw is FALSE.
RequestHook(base, c) ==
  LET r1 == [base EXCEPT
               !.device = StripGeo(@),
               !.user = StripUser(@),
               !.ext = [present |-> TRUE, account |-> c.accountID],
               !.cur = IF @.present THEN @ ELSE [present |-> TRUE, list |-> <<"USD">>]]
  IN IF r1.imp.kind # "array"
       THEN [threw |-> TRUE,
             err |-> ErrorVal("Error", "Request must contain a valid impressions array", 0),
             request |-> r1]
       ELSE LET f == ImpsFrom(r1.imp.items, 1)
            IN [threw |-> f.threw, err |-> f.err,
                request |-> [r1 EXCEPT !.imp.items = f.items]]

\* --------------------------------------------- converter.bidResponse
\* A wire bid: [mtype, hasAdm, adm, nurl]

\* The generic buildBidResponse: the media type follows the wire bid's mtype
\* (1 banner, 2 video, 4 native; no other code can be resolved), the markup
\* goes to ad (banner) or vastXml (video), nurl to vastUrl (video).
MediaTypeOf(mtype) ==
  CASE mtype = Num(1) -> BANNER
    [] mtype = Num(2) \/ mtype = Str(<<"2">>) -> VIDEO
    [] mtype = Num(4) -> NATIVE
    [] OTHER -> "none"

buildBidResponse(bid) ==
  LET mt == MediaTypeOf(bid.mtype)
      adm == IF bid.hasAdm THEN bid.adm ELSE Undef
  IN IF mt = "none"
       THEN [threw |-> TRUE,
             err |-> ErrorVal("Error", "Cannot determine mediaType for response", 0),
             bidResponse |-> [mediaType |-> "none", ad |-> Undef, vastXml |-> Undef,
                              vastUrl |-> Undef, hasVastUrl |-> FALSE]]
       ELSE [threw |-> FALSE, err |-> Undef,
             bidResponse |->
               [mediaType |-> mt,
                ad |-> IF mt = BANNER /\ ~Falsy(adm) THEN adm ELSE Undef,
                vastXml |-> IF mt = VIDEO /\ ~Falsy(adm) THEN adm ELSE Undef,
                vastUrl |-> IF mt = VIDEO /\ ~Falsy(bid.nurl) THEN bid.nurl ELSE Undef,
                hasVastUrl |-> mt = VIDEO /\ ~Falsy(bid.nurl)]]

\* WireAfterCapture without the delete
WireAfterCapture_KeepsAdm(bid) == bid

\* The wire bid as the hook leaves it before the generic conversion
WireAfterCapture(bid) ==
  IF bid.mtype = Num(2) THEN [bid EXCEPT !.hasAdm = FALSE, !.adm = Undef] ELSE bid

\* let vastUrl; if (bid.mtype === 2) vastUrl = bid.adm
CapturedVastUrl(bid) ==
  IF bid.mtype = Num(2) /\ bid.hasAdm THEN bid.adm ELSE Undef

\* The response post-hook: [threw, err, wire, bidResponse]
BidResponseHook(bid) ==
  LET captured == CapturedVastUrl(bid)
      wire == WireAfterCapture(bid)
      g == buildBidResponse(wire)
  IN IF g.threw
       THEN [threw |-> TRUE, err |-> g.err, wire |-> wire, bidResponse |-> g.bidResponse]
       ELSE [threw |-> FALSE, err |-> Undef, wire |-> wire,
             bidResponse |->
               IF g.bidResponse.mediaType = VIDEO
                 THEN [g.bidResponse EXCEPT !.vastUrl = captured, !.hasVastUrl = TRUE]
                 ELSE g.bidResponse]

\* ------------------------------------------------------ input universes
SeqsUpTo(S, k) == UNION {[1..m -> S] : m \in 0..k}

FormatEntries ==
  {[w |-> Num(300), h |-> Num(250)], [w |-> Str(<<"3", "0", "0">>), h |-> Num(250)]}

Formats ==
  {[isArray |-> FALSE, items |-> <<>>], [isArray |-> TRUE, items |-> <<>>]}
  \cup {[isArray |-> TRUE, items |-> <<f>>] : f \in FormatEntries}
  \cup {[isArray |-> TRUE, items |-> <<[w |-> Num(300), h |-> Num(250)],
                                        [w |-> Num(728), h |-> Num(90)]>>]}

NoBanner ==
  [present |-> FALSE, w |-> Undef, h |-> Undef,
   format |-> [isArray |-> FALSE, items |-> <<>>]]

Banners ==
  {[present |-> TRUE, w |-> w, h |-> h, format |-> f] :
     w \in {Undef, Num(320)}, h \in {Undef, Num(50)}, f \in Formats}

ImpVariants ==
  {[nul |-> TRUE, banner |-> NoBanner], [nul |-> FALSE, banner |-> NoBanner]}
  \cup {[nul |-> FALSE, banner |-> b] : b \in Banners}

ImpLists(k) ==
  {[kind |-> "missing", items |-> <<>>], [kind |-> "object", items |-> <<>>]}
  \cup {[kind |-> "array", items |-> l] : l \in SeqsUpTo(ImpVariants, k)}

Devices ==
  {[present |-> FALSE, keys |-> {}, geo |-> [present |-> FALSE, keys |-> {}]],
   [present |-> TRUE, keys |-> {"ua"}, geo |-> [present |-> FALSE, keys |-> {}]]}
  \cup {[present |-> TRUE, keys |-> {"ua", "geo"}, geo |-> [present |-> TRUE, keys |-> g]] :
          g \in SUBSET {"lat", "lon", "country"}}

Users ==
  {[present |-> FALSE, keys |-> {}]}
  \cup {[present |-> TRUE, keys |-> u] : u \in SUBSET (UserSensitive \cup {"id"})}

Curs == {[present |-> FALSE, list |-> <<>>], [present |-> TRUE, list |-> <<"EUR">>]}

NoExt == [present |-> FALSE, account |-> Undef]

FullDevice ==
  [present |-> TRUE, keys |-> {"ua", "geo"},
   geo |-> [present |-> TRUE, keys |-> {"lat", "lon", "country"}]]
FullUser == [present |-> TRUE, keys |-> UserSensitive \cup {"id"}]

PlainImp == [nul |-> FALSE, banner |-> NoBanner]
SizedBanner(w, h, f) ==
  [nul |-> FALSE, banner |-> [present |-> TRUE, w |-> w, h |-> h, format |-> f]]

\* Impression lists that end each way the loop can end
SampleImpLists ==
  {[kind |-> "missing", items |-> <<>>],
   [kind |-> "array", items |-> <<PlainImp>>],
   [kind |-> "array",
    items |-> <<SizedBanner(Undef, Undef,
                  [isArray |-> TRUE, items |-> <<[w |-> Num(300), h |-> Num(250)]>>])>>],
   [kind |-> "array", items |-> <<PlainImp, [nul |-> TRUE, banner |-> NoBanner]>>],
   [kind |-> "array",
    items |-> <<SizedBanner(Undef, Undef,
                  [isArray |-> TRUE,
                   items |-> <<[w |-> Str(<<"3", "0", "0">>), h |-> Num(250)]>>])>>]}

\* Every device/user/cur combination over the sample lists, and every
\* impression list over one device/user.
BaseRequests ==
  {[device |-> d, user |-> u, ext |-> NoExt, cur |-> c, imp |-> i] :
     d \in Devices, u \in Users, c \in Curs, i \in SampleImpLists}
  \cup {[device |-> FullDevice, user |-> FullUser, ext |-> NoExt,
         cur |-> [present |-> FALSE, list |-> <<>>], imp |-> i] : i \in ImpLists(MaxImps)}

WireBids ==
  {[mtype |-> m, hasAdm |-> a # Undef, adm |-> a, nurl |-> n] :
     m \in {Num(1), Num(2), Num(3), Num(4), Str(<<"2">>), Undef},
     a \in {Undef, Str(<<>>), Str(<<"<VAST>">>), Str(<<"<div>">>)},
     n \in {Undef, Str(<<"https://nurl">>)}}

AccountIDs ==
  {Undef, Null, Num(0), Num(123), Str(<<>>), Str(<<" ", "\t">>),
   Str(<<" ", "a", "1", " ">>), Bool(FALSE), Bool(TRUE), Sym(1)}

Configs == [telemetry : {"true", "false", "unset"}, accountID : AccountIDs]

\* ------------------------------------------------- the converter hooks
\* Each behaviour of SpecHooks applies one hook to one input.
Idle == [phase |-> "idle"]
NoCall == [op |-> "none", arg |-> Undef, caught |-> Undef]
NoRet == [kind |-> "none"]

InitHooks ==
  /\ cfg \in {c \in Configs : c.telemetry = "unset" /\ c.accountID \in {Undef, Num(123)}}
  /\ aps = NoWindowAps
  /\ ads = {}
  /\ nops = 0
  /\ call = NoCall
  /\ ret = NoRet
  /\ hook = Idle

\* converter.request(buildRequest, imps, bidderRequest, context)
RequestHookStep ==
  /\ hook.phase = "idle"
  /\ \E base \in BaseRequests :
       LET r == RequestHook(base, cfg)
       IN hook' = [phase |-> "request", base |-> base, threw |-> r.threw,
                   err |-> r.err, request |-> r.request]
  /\ UNCHANGED <<cfg, aps, ads, nops, call, ret>>

\* converter.bidResponse(buildBidResponse, bid, context)
BidResponseHookStep ==
  /\ hook.phase = "idle"
  /\ \E bid \in WireBids :
       LET r == BidResponseHook(bid)
       IN hook' = [phase |-> "bidResponse", bid |-> bid, threw |-> r.threw,
                   err |-> r.err, wire |-> r.wire, bidResponse |-> r.bidResponse]
  /\ UNCHANGED <<cfg, aps, ads, nops, call, ret>>

NextHooks == RequestHookStep \/ BidResponseHookStep

SpecHooks == InitHooks /\ [][NextHooks]_vars

\* ------------------------------------------- properties of the hooks
RequestHookRan == hook.phase = "request"
RequestHookReturned == hook.phase = "request" /\ ~hook.threw
BidResponseHookRan == hook.phase = "bidResponse"

ImpIndices(req) == IF req.imp.kind = "array" THEN DOMAIN req.imp.items ELSE {}

HasDims(banner) == banner.w # Undef /\ banner.h # Undef
LacksDimsAndFormat(imp) ==
  /\ ~imp.nul
  /\ imp.banner.present
  /\ imp.banner.w = Undef /\ imp.banner.h = Undef
  /\ ~(imp.banner.format.isArray /\ Len(imp.banner.format.items) > 0)

\* C2 (as claimed): construction either fails with a structural error or every
\* impression with a banner ends with banner width and height present; an
\* impression whose banner has neither width/height nor a non-empty format
\* list makes construction fail.
C2_FailsOrDimsPresent ==
  RequestHookRan =>
    /\ hook.threw \/ \A i \in ImpIndices(hook.request) :
         hook.request.imp.items[i].banner.present
           => HasDims(hook.request.imp.items[i].banner)
    /\ (\E i \in ImpIndices(hook.base) : LacksDimsAndFormat(hook.base.imp.items[i]))
         => hook.threw

\* C3: after the pre-hook has run, whether it returned or threw, the request
\* holds no lat/lon under device.geo and none of the sensitive keys under
\* user, and every other device, geo and user key is as the generic
\* converter produced it.
C3_PrivacyStripped ==
  RequestHookRan =>
    LET b == hook.base
        r == hook.request
    IN /\ r.device.geo.keys \cap {"lat", "lon"} = {}
       /\ r.user.keys \cap
            {"gender", "yob", "keywords", "kwarry", "customdata", "geo", "data"} = {}
       /\ r.device.present = b.device.present
       /\ r.device.keys = b.device.keys
       /\ r.device.geo.present = b.device.geo.present
       /\ r.device.geo.keys \cup {"lat", "lon"} = b.device.geo.keys \cup {"lat", "lon"}
       /\ r.user.present = b.user.present
       /\ r.user.keys \cup UserSensitive = b.user.keys \cup UserSensitive

C3_Witness ==
  /\ RequestHookRan
  /\ hook.threw
  /\ {"lat", "lon"} \subseteq hook.base.device.geo.keys
  /\ {"kwarry", "data", "id"} \subseteq hook.base.user.keys
  /\ "id" \in hook.request.user.keys

\* C6: for a wire bid with mtype 2 the Bid's vastUrl is the wire bid's
\* original adm and the generic conversion sees no adm; for any other mtype
\* the generic conversion sees the wire bid unchanged and the Bid's vastUrl
\* is not the adm.
C6_VideoMarkupBecomesVastUrl ==
  BidResponseHookRan =>
    IF hook.bid.mtype = Num(2)
      THEN /\ ~hook.wire.hasAdm
           /\ ~hook.threw
           /\ hook.bidResponse.hasVastUrl
           /\ hook.bidResponse.vastUrl = hook.bid.adm
      ELSE /\ hook.wire = hook.bid
           /\ ~hook.threw /\ hook.bid.adm # Undef
                => hook.bidResponse.vastUrl # hook.bid.adm

C6_Witness ==
  /\ BidResponseHookRan
  /\ hook.bid.mtype = Num(2)
  /\ hook.bid.adm = Str(<<"<VAST>">>)
  /\ hook.bidResponse.mediaType = VIDEO
  /\ hook.bidResponse.vastUrl = Str(<<"<VAST>">>)

FirstFormat(banner) == banner.format.items[1]
NumericFirstFormat(banner) ==
  /\ banner.format.isArray /\ Len(banner.format.items) > 0
  /\ FirstFormat(banner).w.t = "number" /\ FirstFormat(banner).h.t = "number"

BannerDimsAre(o, w, h) == o.banner.w = w /\ o.banner.h = h

\* C8 (as claimed): the pre-hook sets banner.w/h to those of format[0] exactly
\* when the banner lacks both width and height and has a non-empty format
\* list with numeric first-entry dimensions; in every other case banner.w and
\* banner.h are left unchanged.
C8_BackfillOnlyWhenBothMissing ==
  RequestHookReturned =>
    \A i \in ImpIndices(hook.base) :
      LET b == hook.base.imp.items[i]
          o == hook.request.imp.items[i]
      IN IF /\ b.banner.present
            /\ b.banner.w = Undef /\ b.banner.h = Undef
            /\ NumericFirstFormat(b.banner)
           THEN BannerDimsAre(o, FirstFormat(b.banner).w, FirstFormat(b.banner).h)
           ELSE BannerDimsAre(o, b.banner.w, b.banner.h)

\* C8 (amended): whenever the pre-hook returns, banner.w/h are those of
\* format[0] exactly when the banner does not have both w >= 0 and h >= 0
\* (so also when only one of the two is present) and has a non-empty format
\* list with numeric first-entry dimensions; otherwise they are unchanged.
C8_BackfillUnlessBothPresent ==
  RequestHookReturned =>
    \A i \in ImpIndices(hook.base) :
      LET b == hook.base.imp.items[i]
          o == hook.request.imp.items[i]
      IN IF /\ b.banner.present
            /\ ~(GE0(b.banner.w) /\ GE0(b.banner.h))
            /\ NumericFirstFormat(b.banner)
           THEN BannerDimsAre(o, FirstFormat(b.banner).w, FirstFormat(b.banner).h)
           ELSE BannerDimsAre(o, b.banner.w, b.banner.h)

C8_Witness ==
  /\ RequestHookReturned
  /\ \E i \in ImpIndices(hook.base) :
       /\ hook.base.imp.items[i].banner.present
       /\ hook.base.imp.items[i].banner.w = Num(320)
       /\ hook.base.imp.items[i].banner.h = Undef
       /\ BannerDimsAre(hook.request.imp.items[i], Num(300), Num(250))
  /\ \E j \in ImpIndices(hook.base) :
       /\ hook.base.imp.items[j].banner.w = Num(320)
       /\ hook.base.imp.items[j].banner.h = Num(50)
       /\ NumericFirstFormat(hook.base.imp.items[j].banner)
       /\ BannerDimsAre(hook.request.imp.items[j], Num(320), Num(50))

\* ------------------------------------------------ the bidder spec
AAX_ENDPOINT == <<"https://web.ads.aps.amazon-adsystem.com/e/pb/bid">>
DEFAULT_PREBID_CREATIVE_JS_URL == "https://client.aps.amazon-adsystem.com/prebid-creative.js"

TypeError(msg) == ErrorVal("TypeError", msg, 0)

Returns(v) == [threw |-> FALSE, err |-> Undef, val |-> v]
Throws(e) == [threw |-> TRUE, err |-> e, val |-> Undef]

\* TryCatch with a catch block that only logs
TryCatch_NoErrorEvent(a, c, op, body) ==
  IF body.threw
    THEN [aps |-> a, ret |-> [kind |-> "undefined", val |-> Undef]]
    ELSE [aps |-> a, ret |-> [kind |-> "value", val |-> body.val]]

\* try { body } catch (err) { record('<op>/didError', { error: err }); logError(...) }
\* after the entry event: [aps, ret]
TryCatch(a, c, op, body) ==
  IF body.threw
    THEN [aps |-> record(a, c, <<op, "didError">>, ErrorData(body.err)),
          ret |-> [kind |-> "undefined", val |-> Undef]]
    ELSE [aps |-> a, ret |-> [kind |-> "value", val |-> body.val]]

\* record('<op>') and then the guarded body
Operation(a, c, op, body) == TryCatch(record(a, c, <<op>>, NoData), c, op, body)

\* The body of isBidRequestValid: the warning's template literal converts the
\* account ID to a string.
ValidBody(c) ==
  IF ~isValidAccountID(c.accountID)
    THEN IF TemplateThrows(c.accountID)
           THEN Throws(TypeError("Cannot convert a Symbol value to a string"))
           ELSE Returns(FALSE)
    ELSE Returns(TRUE)

\* The debug settings read by buildRequests: [debugURL, debug, renderMethod]
DebugSettings ==
  {[debugURL |-> Undef, debug |-> FALSE, renderMethod |-> "other"],
   [debugURL |-> Undef, debug |-> TRUE, renderMethod |-> "fif"],
   [debugURL |-> Str(<<"https://debug.example/bid", "?", "x=1">>), debug |-> TRUE,
    renderMethod |-> "other"],
   [debugURL |-> Num(7), debug |-> TRUE, renderMethod |-> "other"]}

\* The endpoint: [threw, err, val]; a URL is its sequence of pieces.
Endpoint(dbg) ==
  LET endpoint == IF IsNullish(dbg.debugURL) THEN Str(AAX_ENDPOINT) ELSE dbg.debugURL
  IN IF ~dbg.debug THEN Returns(endpoint)
     ELSE IF endpoint.t # "string"
       THEN Throws(TypeError("endpoint.includes is not a function"))
     ELSE LET debugQueryChar ==
                IF \E i \in DOMAIN endpoint.s : endpoint.s[i] = "?" THEN "&" ELSE "?"
          IN IF dbg.renderMethod = "fif"
               THEN Returns(Str(endpoint.s \o <<debugQueryChar, "amzn_debug_mode=fif&amzn_debug_mode=1">>))
               ELSE Returns(Str(endpoint.s \o <<debugQueryChar, "amzn_debug_mode=1">>))

\* converter.toORTB: the generic base request through the request pre-hook
toORTB(base, c) ==
  LET r == RequestHook(base, c)
  IN IF r.threw THEN Throws(r.err) ELSE Returns(r.request)

BuildBody(c, dbg, base) ==
  LET e == Endpoint(dbg)
  IN IF e.threw THEN e
     ELSE LET d == toORTB(base, c)
          IN IF d.threw THEN d
             ELSE Returns([method |-> "POST", url |-> e.val, data |-> d.val,
                           contentType |-> "application/json"])

\* converter.fromORTB: every wire bid through the response post-hook, in
\* order: [threw, err, val] with val the sequence of Bids
RECURSIVE fromORTB(_)
fromORTB(wire) ==
  IF wire = <<>> THEN Returns(<<>>)
  ELSE LET h == BidResponseHook(Head(wire))
       IN IF h.threw THEN Throws(h.err)
          ELSE LET rest == fromORTB(Tail(wire))
               IN IF rest.threw THEN rest
                  ELSE Returns(<<h.bidResponse>> \o rest.val)

\* The inline script put into a non-video bid; it carries the account ID as
\* a quoted string literal.
CreativeScript(c) ==
  [creativeUrl |-> DEFAULT_PREBID_CREATIVE_JS_URL, accountID |-> TemplateString(c.accountID)]

NoScript == [creativeUrl |-> "", accountID |-> <<>>]

\* interpretedResponse.bids.forEach(...)
WithCreative(c, bids) ==
  [i \in DOMAIN bids |->
     [mediaType |-> bids[i].mediaType,
      vastUrl |-> bids[i].vastUrl,
      hasVastUrl |-> bids[i].hasVastUrl,
      vastXml |-> bids[i].vastXml,
      scripted |-> bids[i].mediaType # VIDEO,
      ad |-> IF bids[i].mediaType # VIDEO THEN CreativeScript(c) ELSE NoScript]]

\* response: [defined, hasBody, bids]; request: [defined]
InterpretBody(c, response, request) ==
  IF ~response.defined THEN Throws(TypeError("Cannot read properties of undefined (reading 'body')"))
  ELSE IF ~request.defined THEN Throws(TypeError("Cannot read properties of undefined (reading 'data')"))
  ELSE LET r == fromORTB(IF response.hasBody THEN response.bids ELSE <<>>)
       IN IF r.threw THEN r
          ELSE IF (\E i \in DOMAIN r.val : r.val[i].mediaType # VIDEO)
                    /\ TemplateThrows(c.accountID)
            THEN Throws(TypeError("Cannot convert a Symbol value to a string"))
          ELSE Returns(WithCreative(c, r.val))

\* serverResponses.flatMap((res) => res?.body?.ext?.userSyncs ?? [])
RECURSIVE FlatSyncs(_)
FlatSyncs(items) == IF items = <<>> THEN <<>> ELSE Head(items) \o FlatSyncs(Tail(items))

\* The filter callback on one sync s ("null" is a null entry): "throw", "keep" or "drop"
SyncVerdict(s, opts) ==
  IF s = "null" THEN "throw"
  ELSE IF s = "iframe"
    THEN IF ~opts.defined THEN "throw"
         ELSE IF opts.iframeEnabled THEN "keep" ELSE "drop"
  ELSE IF s = "image"
    THEN IF ~opts.defined THEN "throw"
         ELSE IF opts.pixelEnabled THEN "keep" ELSE "drop"
  ELSE "drop"

RECURSIVE FilterSyncs(_, _)
FilterSyncs(syncs, opts) ==
  IF syncs = <<>> THEN <<>>
  ELSE IF SyncVerdict(Head(syncs), opts) = "keep"
    THEN <<Head(syncs)>> \o FilterSyncs(Tail(syncs), opts)
    ELSE FilterSyncs(Tail(syncs), opts)

\* serverResponses: [isArray, items], each item the userSyncs list of a response
SyncsBody(opts, serverResponses) ==
  IF ~serverResponses.isArray
    THEN Throws(TypeError("serverResponses.flatMap is not a function"))
    ELSE LET userSyncs == FlatSyncs(serverResponses.items)
         IN IF \E i \in DOMAIN userSyncs : SyncVerdict(userSyncs[i], opts) = "throw"
              THEN Throws(TypeError("Cannot read properties of null or undefined"))
              ELSE Returns(FilterSyncs(userSyncs, opts))

\* The inline script of a rendered creative, run in the page
RENDER_EVENT ==
  [name |-> <<"prebid", "creative", "render">>,
   keys |-> {"aaxResponse", "seatBidId"},
   error |-> Undef, source |-> "", libraryVersion |-> ""]

NewScriptEntry == [queue |-> <<>>, store |-> {"listeners"}]

ScriptKey(literal) == Str(literal)

CreativeRun(a, literal) ==
  Push(EnsureEntry(a, ScriptKey(literal), NewScriptEntry), ScriptKey(literal), RENDER_EVENT)

\* ------------------------------------------------------ adapter inputs
\* Base requests handed to buildRequests
AdapterRequests ==
  {[device |-> FullDevice, user |-> FullUser, ext |-> NoExt,
    cur |-> [present |-> FALSE, list |-> <<>>], imp |-> i] :
     i \in SampleImpLists \cup
           {[kind |-> "array",
             items |-> <<SizedBanner(Undef, Undef, [isArray |-> FALSE, items |-> <<>>])>>]}}

AdapterWireBids ==
  {[mtype |-> m, hasAdm |-> TRUE, adm |-> Str(<<"<VAST>">>), nurl |-> Undef] :
     m \in {Num(1), Num(2), Num(3)}}

Responses ==
  {[defined |-> FALSE, hasBody |-> FALSE, bids |-> <<>>],
   [defined |-> TRUE, hasBody |-> FALSE, bids |-> <<>>]}
  \cup {[defined |-> TRUE, hasBody |-> TRUE, bids |-> b] :
          b \in SeqsUpTo(AdapterWireBids, MaxBids)}

ServerRequests == {[defined |-> FALSE], [defined |-> TRUE]}

SyncOptions ==
  {[defined |-> FALSE, iframeEnabled |-> FALSE, pixelEnabled |-> FALSE]}
  \cup {[defined |-> TRUE, iframeEnabled |-> i, pixelEnabled |-> x] :
          i \in BOOLEAN, x \in BOOLEAN}

ServerResponses ==
  {[isArray |-> FALSE, items |-> <<>>],
   [isArray |-> TRUE, items |-> <<>>],
   [isArray |-> TRUE, items |-> << <<>> >>],
   [isArray |-> TRUE, items |-> << <<"iframe", "image">> >>],
   [isArray |-> TRUE, items |-> << <<"image">>, <<"other", "iframe">> >>],
   [isArray |-> TRUE, items |-> << <<"other", "null">> >>]}

\* What onTimeout and onBidderError may be handed
Payloads == {Undef, Null, Num(0), Str(<<>>), Obj(3)}

BidArgs == {Undef, Obj(2)}

\* ------------------------------------------------------ the adapter
Init ==
  /\ cfg \in Configs
  /\ aps = NoWindowAps
  /\ ads = {}
  /\ nops = 0
  /\ call = NoCall
  /\ ret = NoRet
  /\ hook = Idle

Step(op, arg, body) ==
  LET o == Operation(aps, cfg, op, body)
  IN /\ nops < MaxOps
     /\ nops' = nops + 1
     /\ aps' = o.aps
     /\ ret' = o.ret
     /\ call' = [op |-> op, arg |-> arg, caught |-> body.err]
     /\ UNCHANGED <<cfg, hook>>

IsBidRequestValid ==
  /\ \E bid \in BidArgs : Step("isBidRequestValid", bid, ValidBody(cfg))
  /\ UNCHANGED ads

BuildRequests ==
  /\ \E dbg \in DebugSettings, base \in AdapterRequests :
       Step("buildRequests", Undef, BuildBody(cfg, dbg, base))
  /\ UNCHANGED ads

ScriptsOf(r) ==
  IF r.kind = "value"
    THEN {r.val[i].ad.accountID : i \in {j \in DOMAIN r.val : r.val[j].scripted}}
    ELSE {}

InterpretResponse ==
  /\ \E response \in Responses, request \in ServerRequests :
       Step("interpretResponse", Undef, InterpretBody(cfg, response, request))
  /\ ads' = ads \cup ScriptsOf(ret')

GetUserSyncs ==
  /\ \E opts \in SyncOptions, serverResponses \in ServerResponses :
       Step("getUserSyncs", Undef, SyncsBody(opts, serverResponses))
  /\ UNCHANGED ads

\* A lifecycle callback: record(op, data), nothing returned
Callback(op, arg, data) ==
  /\ nops < MaxOps
  /\ nops' = nops + 1
  /\ aps' = record(aps, cfg, <<op>>, data)
  /\ ret' = [kind |-> "undefined", val |-> Undef]
  /\ call' = [op |-> op, arg |-> arg, caught |-> Undef]
  /\ UNCHANGED <<cfg, ads, hook>>

OnTimeout == \E timeoutData \in Payloads : Callback("onTimeout", timeoutData, ErrorData(timeoutData))
OnSetTargeting == Callback("onSetTargeting", Undef, NoData)
OnAdRenderSucceeded == Callback("onAdRenderSucceeded", Undef, NoData)
OnBidderError == \E error \in Payloads : Callback("onBidderError", error, ErrorData(error))
OnBidWon == Callback("onBidWon", Undef, NoData)
OnBidAttribute == Callback("onBidAttribute", Undef, NoData)
OnBidBillable == Callback("onBidBillable", Undef, NoData)

\* The page renders a bid's ad: its inline script runs
RenderCreative ==
  /\ nops < MaxOps
  /\ \E literal \in ads : aps' = CreativeRun(aps, literal)
  /\ nops' = nops + 1
  /\ call' = [op |-> "renderCreative", arg |-> Undef, caught |-> Undef]
  /\ ret' = NoRet
  /\ UNCHANGED <<cfg, ads, hook>>

Next ==
  \/ IsBidRequestValid
  \/ BuildRequests
  \/ InterpretResponse
  \/ GetUserSyncs
  \/ OnTimeout
  \/ OnSetTargeting
  \/ OnAdRenderSucceeded
  \/ OnBidderError
  \/ OnBidWon
  \/ OnBidAttribute
  \/ OnBidBillable
  \/ RenderCreative

Spec == Init /\ [][Next]_vars

\* --------------------------------------- properties of the adapter
FrameworkOps == {"isBidRequestValid", "buildRequests", "interpretResponse", "getUserSyncs"}
LifecycleOps ==
  {"onTimeout", "onSetTargeting", "onAdRenderSucceeded", "onBidderError", "onBidWon",
   "onBidAttribute", "onBidBillable"}

QueueOf(a, k) == IF k \in DOMAIN a.map THEN a.map[k].queue ELSE <<>>

TelemetryEnabled == cfg.telemetry # "false"

NonBlank(cs) == \E i \in DOMAIN cs : cs[i] \notin {" ", "\t"}
NumberOrNonBlankString(v) ==
  \/ v.t \in {"number", "NaN"}
  \/ v.t = "string" /\ NonBlank(v.s)

\* C1 (as claimed): isBidRequestValid returns true when the configured account
\* ID is a number or a string that is non-empty after trimming, and false
\* for every other value, whatever the bid argument.
C1_ValidIffNumberOrNonBlankString ==
  call.op = "isBidRequestValid" =>
    /\ ret.kind = "value"
    /\ ret.val = NumberOrNonBlankString(cfg.accountID)

EntryEvent(op) ==
  [name |-> <<"prebidAdapter", op, "didTrigger">>,
   keys |-> {"analytics", "source", "libraryVersion"},
   error |-> Undef, source |-> "prebid-adapter", libraryVersion |-> "2.0.0"]

DidErrorEvent(op, err) ==
  [name |-> <<"prebidAdapter", op, "didError">>,
   keys |-> {"error", "source", "libraryVersion"},
   error |-> err, source |-> "prebid-adapter", libraryVersion |-> "2.0.0"]

C5_NoTelemetryNoMutation ==
  [][(cfg.telemetry = "false" \/ Falsy(cfg.accountID))
       /\ call'.op \in FrameworkOps \cup LifecycleOps /\ nops' = nops + 1
       => aps' = aps]_vars

C5_Witness ==
  /\ cfg.telemetry = "false"
  /\ cfg.accountID = Num(123)
  /\ nops = 2
  /\ call.op = "buildRequests"
  /\ call.caught # Undef
  /\ ~aps.defined

AllEvents(a) == UNION {{a.map[k].queue[i] : i \in DOMAIN a.map[k].queue} : k \in DOMAIN a.map}
TelemetryEvents(a) == {e \in AllEvents(a) : e.name[1] = "prebidAdapter"}

\* C7 (as claimed): every event record appends carries source and
\* libraryVersion plus the payload's keys, and carries the added analytics
\* field exactly when the payload has no error field, whatever that field's
\* value.
C7_AnalyticsIffNoErrorField ==
  \A e \in TelemetryEvents(aps) :
    /\ {"source", "libraryVersion"} \subseteq e.keys
    /\ "analytics" \in e.keys <=> "error" \notin e.keys

\* C9 (as claimed): with telemetry enabled and a configured account ID that
\* the validation gate accepts, every lifecycle callback appends exactly one
\* 'prebidAdapter/<callback>/didTrigger' event to the end of that account's
\* queue, leaves the earlier entries as they were and returns undefined.
C9_CallbackAppendsOneEvent ==
  [][TelemetryEnabled /\ NumberOrNonBlankString(cfg.accountID)
       /\ call'.op \in LifecycleOps /\ nops' = nops + 1 =>
       /\ ret'.kind = "undefined"
       /\ Len(QueueOf(aps', cfg.accountID)) = Len(QueueOf(aps, cfg.accountID)) + 1
       /\ SubSeq(QueueOf(aps', cfg.accountID), 1, Len(QueueOf(aps, cfg.accountID)))
            = QueueOf(aps, cfg.accountID)
       /\ QueueOf(aps', cfg.accountID)[Len(QueueOf(aps, cfg.accountID)) + 1].name
            = <<"prebidAdapter", call'.op, "didTrigger">>]_vars

\* C10 (as claimed): for a configured account ID, string or number, the
\* render event of the injected script lands in the entry of window._aps
\* that record uses for the account: window._aps never holds an entry under
\* any other key.
C10_OneEntryPerAccount ==
  cfg.accountID.t \in {"number", "string"} /\ ~Falsy(cfg.accountID)
    => DOMAIN aps.map \subseteq {cfg.accountID}

====
